---- MODULE Spec2Model ----
(***************************************************************************)
(* GithubReposScrapper.get_repositories with its ConcurrencyGate           *)
(* (asyncio.Semaphore _mcr) and its RateLimiter (asyncio.Semaphore _lock   *)
(* refilled by the background task _reset_loop).                           *)
(*                                                                         *)
(* Scheduling is that of one asyncio event loop: a coroutine runs without  *)
(* interruption from one suspension point to the next; callbacks made      *)
(* ready (a future resolved, a task created, a timer expired, an HTTP      *)
(* response arrived) are run in FIFO order; the one-second timer of        *)
(* _reset_loop expires only when the loop is idle (running the ready       *)
(* callbacks takes no time compared with one second).                      *)
(* asyncio.Semaphore is modelled as CPython 3.11 implements it.            *)
(***************************************************************************)
EXTENDS Integers, Sequences, FiniteSets, TLC

\* ---- bounds of the model
MaxM == 2          \* max_concurrent_requests ranges over 1..MaxM
MaxR == 2          \* requests_per_second ranges over 1..MaxR
MaxLimit == 2      \* limit ranges over 1..MaxLimit
MaxCommits == 1    \* length of a commits response
MaxTicks == 2
MaxAggLen == 4
MaxCloses == 2      \* idle_ticks saturates here

Main == 0          \* the task that calls get_repositories
ResetTask == -1    \* RateLimiter._reset_task
None == "None"

\* ---- upstream data
Logins == {"alice"}

\* one element of a commits response: author is null or an object with a
\* login (AggCommits below adds the author object whose login is missing)
Commits == {[author |-> None, login |-> None]}
             \cup [author : {"obj"}, login : Logins]

RECURSIVE SeqsUpTo(_, _)
SeqsUpTo(S, n) ==
    IF n = 0 THEN {<<>>}
    ELSE LET shorter == SeqsUpTo(S, n - 1)
         IN  shorter \cup {Append(s, x) : s \in {q \in shorter : Len(q) = n - 1}, x \in S}

CommitLists == SeqsUpTo(Commits, MaxCommits)

\* the i-th item of the platform's ranking by stars; the second one has no
\* language
RankedItem(i) ==
    [name |-> IF i = 1 THEN "X" ELSE IF i = 2 THEN "Y" ELSE "Z",
     owner |-> IF i = 1 THEN "o1" ELSE IF i = 2 THEN "o2" ELSE "o3",
     stargazers_count |-> 100 \div i,
     watchers_count |-> 100 \div i,
     forks_count |-> 10 \div i,
     language |-> IF i = 2 THEN None ELSE "Python"]

\* what the transport gives back for one request: a status line, or an
\* aiohttp.ClientError, or any other exception
Statuses == {200, 403, 404, 500}
Responses == [kind : {"status"}, status : Statuses]
               \cup [kind : {"ClientError", "Exception"}, status : {0}]

\* ---- asyncio.Semaphore (CPython 3.11): _value and the deque _waiters of
\* futures; a future is the task that awaits it and whether it is done
Semaphore(value) == [value |-> value, waiters |-> <<>>]

\* no waiter of this program is ever cancelled, so "any waiter not
\* cancelled" is "any waiter"
Locked(s) == s.value = 0 \/ Len(s.waiters) > 0

FirstPending(s) ==
    LET pending == {i \in 1..Len(s.waiters) : ~s.waiters[i].done}
    IN  IF pending = {} THEN 0
        ELSE CHOOSE i \in pending : \A j \in pending : i <= j

WakeUpNextNobody(s) == [sem |-> s, woken |-> <<>>]
WakeUpNext(s) ==
    LET i == FirstPending(s)
    IN  IF i = 0 THEN [sem |-> s, woken |-> <<>>]
        ELSE [sem |-> [value |-> s.value - 1,
                       waiters |-> [s.waiters EXCEPT ![i].done = TRUE]],
              woken |-> <<s.waiters[i].task>>]

ReleaseTwice(s) == WakeUpNext([s EXCEPT !.value = @ + 2])
Release(s) == WakeUpNext([s EXCEPT !.value = @ + 1])

\* RateLimiter.__init__: self._lock = asyncio.Semaphore(rate_limit)
NewLockEmpty(rate_limit) == Semaphore(0)
NewLock(rate_limit) == Semaphore(rate_limit)

\* acquire() up to its await: the fast path, or park on a new future
Acquire(s, t) ==
    IF ~Locked(s)
    THEN [sem |-> [s EXCEPT !.value = @ - 1], parked |-> FALSE]
    ELSE [sem |-> [s EXCEPT !.waiters = Append(@, [task |-> t, done |-> FALSE])],
          parked |-> TRUE]

\* acquire() after its await: the future is removed and the next waiter is
\* woken when a permit is left
AcquireResume(s, t) ==
    LET s1 == [s EXCEPT !.waiters = SelectSeq(@, LAMBDA w : w.task /= t)]
    IN  IF s1.value > 0 THEN WakeUpNext(s1) ELSE [sem |-> s1, woken |-> <<>>]

IsParked(s, t) == \E i \in 1..Len(s.waiters) : s.waiters[i].task = t /\ ~s.waiters[i].done


\* ---- state
VARIABLES
    M,              \* max_concurrent_requests
    R,              \* requests_per_second (RateLimiter._rate_limit)
    limit,          \* argument of get_repositories
    mcr,            \* GithubReposScrapper._mcr
    lock,           \* RateLimiter._lock
    running,        \* RateLimiter._running
    reset_pc,       \* position of _reset_loop
    ready,          \* the event loop's FIFO queue of tasks to resume
    pc,             \* position of Main (0) and of each process_repo task
    log,            \* per task: the events of its request, in order
    repos_data,     \* items of the search response
    commits,        \* per process_repo task: its local "commits"
    results,        \* per process_repo task: the Repository it returned
    ret,            \* list returned by get_repositories
    exc,            \* exception raised by get_repositories
    ticked,         \* history: a refill tick has occurred
    idle_ticks,     \* history: refill ticks since the last acquire() completed
    window_grants,  \* history: acquire() completed since the last refill tick
    out_of_order,   \* history: a task finished before one of a better rank
    scenario,       \* which upstream answers: "any" or the scripted "e2e"
    fn_pc,          \* which function is applied on its own, and whether it has been
    agg_commits,    \* input of the aggregation loop of process_repo
    agg_authors,    \* its output
    cls_resp,       \* input of the classification of _safe_request
    cls_out,        \* its output
    session_closed, \* GithubReposScrapper.close() has returned
    closes,         \* RateLimiter.close() calls that have returned
    close_exc       \* exception raised by RateLimiter.close()

vars == <<M, R, limit, mcr, lock, running, reset_pc, ready, pc, log, repos_data,
          commits, results, ret, exc, ticked, idle_ticks, window_grants,
          out_of_order,
          scenario, fn_pc, agg_commits, agg_authors, cls_resp, cls_out,
          session_closed, closes, close_exc>>

Tasks == 0..MaxLimit
NoExc == [ok |-> TRUE, type |-> None, msg |-> None, status |-> 0]
NoRepo == [name |-> None, owner |-> None, position |-> 0, stars |-> 0, watchers |-> 0,
           forks |-> 0, language |-> None, authors_commits_num_today |-> <<>>]

\* the part of the state a coroutine step of _safe_request works on
Conc == [mcr |-> mcr, lock |-> lock, ready |-> ready, pc |-> pc, log |-> log,
         idle_ticks |-> idle_ticks, window_grants |-> window_grants]

Apply(c) ==
    /\ mcr' = c.mcr
    /\ lock' = c.lock
    /\ ready' = c.ready
    /\ pc' = c.pc
    /\ log' = c.log
    /\ idle_ticks' = c.idle_ticks
    /\ window_grants' = c.window_grants

Logged(c, t, e) == [c EXCEPT !.log[t] = Append(@, e)]

\* ---- _safe_request
\* session.request(...) is entered: the request goes out, the task suspends
SendTwice(c, t) == [Logged(Logged(c, t, "send"), t, "send") EXCEPT !.pc[t] = "http"]
Send(c, t) == [Logged(c, t, "send") EXCEPT !.pc[t] = "http"]

\* RateLimiter.acquire() has returned
Granted(c, t) ==
    [Logged(c, t, "permit") EXCEPT !.window_grants = @ + 1, !.idle_ticks = 0]

\* await self._rate_limiter.acquire()
RateAcquireDropGate(c, t) ==
    LET a == Acquire(c.lock, t)
        c1 == [c EXCEPT !.lock = a.sem]
        r == Release(c1.mcr)
    IN  IF a.parked
        THEN [c1 EXCEPT !.pc[t] = "rate_wait", !.mcr = r.sem, !.ready = @ \o r.woken]
        ELSE [Logged(Granted(c1, t), t, "send") EXCEPT !.pc[t] = "http"]
RateAcquireNoWait(c, t) == Send(Granted(c, t), t)
RateAcquire(c, t) ==
    LET a == Acquire(c.lock, t)
        c1 == [c EXCEPT !.lock = a.sem]
    IN  IF a.parked THEN [c1 EXCEPT !.pc[t] = "rate_wait"]
        ELSE Send(Granted(c1, t), t)

RateResume(c, t) ==
    LET a == AcquireResume(c.lock, t)
        c1 == [c EXCEPT !.lock = a.sem, !.ready = @ \o a.woken]
    IN  Send(Granted(c1, t), t)

\* async with self._mcr: (entry)
GateAcquire(c, t) ==
    LET a == Acquire(c.mcr, t)
        c1 == [c EXCEPT !.mcr = a.sem]
    IN  IF a.parked THEN [c1 EXCEPT !.pc[t] = "gate_wait"]
        ELSE RateAcquire(Logged(c1, t, "gate"), t)

GateResume(c, t) ==
    LET a == AcquireResume(c.mcr, t)
        c1 == [c EXCEPT !.mcr = a.sem, !.ready = @ \o a.woken]
    IN  RateAcquire(Logged(c1, t, "gate"), t)

\* async with self._mcr: (exit, whether by return or by exception)
GateRelease(c, t) ==
    LET r == Release(c.mcr)
    IN  [Logged(c, t, "release") EXCEPT !.mcr = r.sem, !.ready = @ \o r.woken]

\* _safe_request from its first line to its first suspension
SafeRequestEnterRateFirst(c, t) ==
    IF ~Locked(c.lock) /\ ~Locked(c.mcr)
    THEN LET c1 == Granted([c EXCEPT !.lock = Acquire(c.lock, t).sem], t)
             c2 == Logged([c1 EXCEPT !.mcr = Acquire(c.mcr, t).sem], t, "gate")
         IN  Send(c2, t)
    ELSE GateAcquire(c, t)
SafeRequestEnter(c, t) == GateAcquire(c, t)

\* the status checks and the except clauses of _safe_request
Raise(type, msg, status) == [ok |-> FALSE, type |-> type, msg |-> msg, status |-> status]
ClassifyClientFirst(resp) ==
    IF resp.kind = "status"
    THEN IF resp.status >= 500 THEN Raise("RuntimeError", "GitHub server error", resp.status)
         ELSE IF resp.status >= 400 THEN Raise("RuntimeError", "Client error", resp.status)
         ELSE IF resp.status = 403 THEN Raise("RuntimeError", "Forbidden/Ratelimit", resp.status)
         ELSE NoExc
    ELSE IF resp.kind = "ClientError" THEN Raise("RuntimeError", "Network error", 0)
    ELSE Raise("Exception", "unexpected error", 0)
Classify(resp) ==
    IF resp.kind = "status"
    THEN IF resp.status >= 500 THEN Raise("RuntimeError", "GitHub server error", resp.status)
         ELSE IF resp.status = 403 THEN Raise("RuntimeError", "Forbidden/Ratelimit", resp.status)
         ELSE IF resp.status >= 400 THEN Raise("RuntimeError", "Client error", resp.status)
         ELSE NoExc
    ELSE IF resp.kind = "ClientError" THEN Raise("RuntimeError", "Network error", 0)
    ELSE Raise("Exception", "unexpected error", 0)

\* what the message of the RuntimeError is formatted from, and the exception
\* it is raised from; resp.body is the text of the response, or the exception
\* the transport raised
ErrorMessage(resp) ==
    IF resp.kind = "status"
    THEN IF resp.status >= 500
         THEN [prefix |-> "GitHub server error", status |-> resp.status, text |-> None, cause |-> None]
         ELSE IF resp.status = 403
         THEN [prefix |-> "Forbidden/Ratelimit", status |-> 0, text |-> resp.body, cause |-> None]
         ELSE IF resp.status >= 400
         THEN [prefix |-> "Client error", status |-> resp.status, text |-> resp.body, cause |-> None]
         ELSE None
    ELSE IF resp.kind = "ClientError"
    THEN [prefix |-> "Network error", status |-> 0, text |-> resp.body, cause |-> resp.body]
    ELSE None

\* what the logger.error calls of _safe_request record: a status failure is
\* raised inside the try block, so "except Exception" logs it a second time
ErrorLogs(resp) ==
    IF Classify(resp).ok THEN <<>>
    ELSE IF resp.kind = "status" THEN <<Classify(resp).msg, "unexpected error">>
    ELSE IF resp.kind = "ClientError" THEN <<"Network error">>
    ELSE <<"unexpected error">>

\* leaving _safe_request after the response resp: the async with block is
\* left by return or by exception
SafeRequestExitOnSuccessOnly(c, t, resp) ==
    LET c1 == [c EXCEPT !.log[t] = @ \o ErrorLogs(resp)]
    IN  IF Classify(resp).ok THEN GateRelease(c1, t) ELSE c1
SafeRequestExit(c, t, resp) ==
    GateRelease([c EXCEPT !.log[t] = @ \o ErrorLogs(resp)], t)

\* ---- process_repo
\* try: commits = await self._get_repository_commits(...)
\* except Exception: commits = []
CommitsFailurePropagates(out, payload) ==
    [raised |-> ~out.ok, commits |-> IF out.ok THEN payload ELSE <<>>]
CommitsOrEmpty(out, payload) ==
    [raised |-> FALSE, commits |-> IF out.ok THEN payload ELSE <<>>]

\* author_info.get("login") or "unknown"
AuthorNameNoFallback(commit) == commit.login
AuthorName(commit) == IF commit.login = None THEN "unknown" ELSE commit.login

\* authors[author_name] = authors.get(author_name, 0) + 1 on a dict that keeps
\* insertion order
BumpNoIncrement(authors, name) ==
    IF \E i \in 1..Len(authors) : authors[i].author = name
    THEN authors
    ELSE Append(authors, [author |-> name, commits_num |-> 1])
BumpPrepend(authors, name) ==
    IF \E i \in 1..Len(authors) : authors[i].author = name
    THEN [i \in 1..Len(authors) |->
            IF authors[i].author = name
            THEN [authors[i] EXCEPT !.commits_num = @ + 1]
            ELSE authors[i]]
    ELSE <<[author |-> name, commits_num |-> 1]>> \o authors
Bump(authors, name) ==
    IF \E i \in 1..Len(authors) : authors[i].author = name
    THEN [i \in 1..Len(authors) |->
            IF authors[i].author = name
            THEN [authors[i] EXCEPT !.commits_num = @ + 1]
            ELSE authors[i]]
    ELSE Append(authors, [author |-> name, commits_num |-> 1])

\* the loop over commits; a commit whose author is null is skipped
RECURSIVE CountAuthors(_, _)
CountAuthors(cs, authors) ==
    IF cs = <<>> THEN authors
    ELSE CountAuthors(Tail(cs),
                      IF Head(cs).author = None THEN authors
                      ELSE Bump(authors, AuthorName(Head(cs))))

AggregateShared(cs) ==
    CountAuthors(cs, IF \E u \in DOMAIN results : results[u].authors_commits_num_today /= <<>>
                     THEN results[CHOOSE u \in DOMAIN results :
                                    results[u].authors_commits_num_today /= <<>>].authors_commits_num_today
                     ELSE <<>>)
Aggregate(cs) == CountAuthors(cs, <<>>)

MakeRepository(repo, position, authors) ==
    [name |-> repo.name,
     owner |-> repo.owner,
     position |-> position,
     stars |-> repo.stargazers_count,
     watchers |-> repo.watchers_count,
     forks |-> repo.forks_count,
     language |-> IF repo.language = None THEN "unknown" ELSE repo.language,
     authors_commits_num_today |-> authors]

\* ---- get_repositories
\* the search response holds the first n items of the ranking, for some n of
\* at most per_page = limit
SearchResults(lim) == {[i \in 1..n |-> RankedItem(i)] : n \in 0..lim}

\* process_repo(repo, idx + 1) for idx, repo in enumerate(repos_data)
PositionZeroBased(idx) == idx
Position(idx) == idx + 1

\* gather keeps the result of the idx-th awaitable at index idx
GatherSlotByCompletion(res, idx, repo) ==
    LET free == CHOOSE i \in 1..MaxLimit :
                    res[i] = NoRepo /\ \A j \in 1..(i - 1) : res[j] /= NoRepo
    IN  [res EXCEPT ![free] = repo]
GatherSlot(res, idx, repo) == [res EXCEPT ![idx + 1] = repo]

GatherResults(res, n) == [i \in 1..n |-> res[i]]

\* the future of gather is resolved when the task t that finishes now is the
\* last of the n awaitables to finish
GatherFirstCompleted(pcs, n, t) == TRUE
GatherComplete(pcs, n, t) == \A u \in 1..n : u = t \/ pcs[u] = "done"

\* repos_data = await self._get_top_repositories(limit): a failure of the
\* search request is not caught
SearchFailureSwallowed(out, items) ==
    [raised |-> FALSE, items |-> IF out.ok THEN items ELSE <<>>]
SearchOutcome(out, items) ==
    [raised |-> ~out.ok, items |-> IF out.ok THEN items ELSE <<>>]

\* the variables of the functions applied on their own, while unused
NoResp == [kind |-> None, status |-> 0, body |-> None]
NoOutcome == [out |-> NoExc, message |-> None]
PureVars == <<fn_pc, agg_commits, agg_authors, cls_resp, cls_out>>
PureIdle ==
    /\ fn_pc = "none"
    /\ agg_commits = <<>>
    /\ agg_authors = <<>>
    /\ cls_resp = NoResp
    /\ cls_out = NoOutcome

\* nothing has been closed after construction
CloseVars == <<session_closed, closes, close_exc>>
CloseIdle ==
    /\ session_closed = FALSE
    /\ closes = 0
    /\ close_exc = None

AuxVars == <<scenario, PureVars, CloseVars>>

Init ==
    /\ M \in 1..MaxM
    /\ R \in 1..MaxR
    /\ limit \in 1..MaxLimit
    /\ mcr = Semaphore(M)
    /\ lock = NewLock(R)
    /\ running = TRUE
    /\ reset_pc = "created"
    /\ ready = <<Main, ResetTask>>
    /\ pc = [t \in Tasks |-> IF t = Main THEN "start" ELSE "none"]
    /\ log = [t \in Tasks |-> <<>>]
    /\ repos_data = <<>>
    /\ commits = [t \in 1..MaxLimit |-> <<>>]
    /\ results = [t \in 1..MaxLimit |-> NoRepo]
    /\ ret = <<>>
    /\ exc = NoExc
    /\ ticked = FALSE
    /\ idle_ticks = 0
    /\ window_grants = 0
    /\ out_of_order = FALSE
    /\ scenario = "any"
    /\ PureIdle
    /\ CloseIdle

ConfigVars == <<M, R, limit, running>>
HistVars == <<ticked, out_of_order>>
DataVars == <<repos_data, commits, results, ret, exc>>

Pop(c) == [c EXCEPT !.ready = Tail(@)]
IsHead(t) == ready /= <<>> /\ Head(ready) = t


\* the JSON bodies a response can carry
CommitsBodies(resp) == IF Classify(resp).ok THEN CommitLists ELSE {<<>>}
SearchBodies(resp, lim) == IF Classify(resp).ok THEN SearchResults(lim) ELSE {<<>>}

\* the scripted upstream: the search answers 200 with the items X and Y, the
\* commits request of X answers 200 with three commits by alice, the one of
\* Y answers 403
AliceCommit == [author |-> "obj", login |-> "alice"]
E2ESearch == [resp |-> [kind |-> "status", status |-> 200],
              body |-> <<RankedItem(1), RankedItem(2)>>]
E2ECommits(t) ==
    IF t = 1 THEN [resp |-> [kind |-> "status", status |-> 200],
                   body |-> <<AliceCommit, AliceCommit, AliceCommit>>]
    ELSE [resp |-> [kind |-> "status", status |-> 403], body |-> <<>>]

\* what the platform may answer to the search request and to the commits
\* request of task t
TwoWaySearch(lim) ==
    {[resp |-> [kind |-> "status", status |-> 200], body |-> b] : b \in SearchResults(lim)}
        \cup {[resp |-> [kind |-> "status", status |-> 500], body |-> <<>>]}
TwoWayCommits ==
    {[resp |-> [kind |-> "status", status |-> 200], body |-> <<AliceCommit>>],
     [resp |-> [kind |-> "status", status |-> 403], body |-> <<>>]}

SearchAnswers ==
    IF scenario = "e2e" THEN {E2ESearch}
    ELSE IF scenario = "two_way" THEN TwoWaySearch(limit)
    ELSE UNION {{[resp |-> r, body |-> b] : b \in SearchBodies(r, limit)} : r \in Responses}
CommitsAnswers(t) ==
    IF scenario = "e2e" THEN {E2ECommits(t)}
    ELSE IF scenario = "two_way" THEN TwoWayCommits
    ELSE UNION {{[resp |-> r, body |-> b] : b \in CommitsBodies(r)} : r \in Responses}

Min(a, b) == IF a < b THEN a ELSE b

\* ---- RateLimiter._reset_loop
\* to_release = self._rate_limit - self._lock._value
ToReleaseNone(rate_limit, value) == 0
ToReleaseFull(rate_limit, value) == rate_limit
ToRelease(rate_limit, value) == rate_limit - value

\* for _ in range(to_release): self._lock.release()
RECURSIVE ReleaseN(_, _)
ReleaseN(s, n) ==
    IF n <= 0 THEN [sem |-> s, woken |-> <<>>]
    ELSE LET r == Release(s)
             rest == ReleaseN(r.sem, n - 1)
         IN  [sem |-> rest.sem, woken |-> r.woken \o rest.woken]

\* the first step of the task: "while self._running" and the call of sleep(1)
RunResetStart ==
    /\ IsHead(ResetTask)
    /\ reset_pc = "created"
    /\ reset_pc' = IF running THEN "sleeping" ELSE "finished"
    /\ ready' = Tail(ready)
    /\ UNCHANGED <<mcr, lock, pc, log, idle_ticks, window_grants>>
    /\ UNCHANGED HistVars
    /\ UNCHANGED ConfigVars
    /\ UNCHANGED AuxVars
    /\ UNCHANGED DataVars

\* one second has passed
TimerFire ==
    /\ reset_pc = "sleeping"
    /\ ready = <<>>
    /\ reset_pc' = "timer_done"
    /\ ready' = <<ResetTask>>
    /\ UNCHANGED <<mcr, lock, pc, log, idle_ticks, window_grants>>
    /\ UNCHANGED HistVars
    /\ UNCHANGED ConfigVars
    /\ UNCHANGED AuxVars
    /\ UNCHANGED DataVars

\* the refill tick, then "while self._running" and sleep(1) again
RunResetTick ==
    /\ IsHead(ResetTask)
    /\ reset_pc = "timer_done"
    /\ LET r == ReleaseN(lock, ToRelease(R, lock.value))
       IN  /\ lock' = r.sem
           /\ ready' = Tail(ready) \o r.woken
    /\ reset_pc' = IF running THEN "sleeping" ELSE "finished"
    /\ ticked' = TRUE
    /\ idle_ticks' = Min(idle_ticks + 1, MaxTicks)
    /\ window_grants' = 0
    /\ UNCHANGED <<mcr, pc, log, out_of_order>>
    /\ UNCHANGED ConfigVars
    /\ UNCHANGED AuxVars
    /\ UNCHANGED DataVars

\* ---- the tasks
\* a task reaches _safe_request: Main through _get_top_repositories, a
\* process_repo task through _get_repository_commits
RunSafeRequest(t) ==
    /\ IsHead(t)
    /\ pc[t] = "start"
    /\ Apply(SafeRequestEnter(Pop(Conc), t))
    /\ UNCHANGED reset_pc
    /\ UNCHANGED HistVars
    /\ UNCHANGED ConfigVars
    /\ UNCHANGED AuxVars
    /\ UNCHANGED DataVars

\* a task woken on the gate goes on
RunGateResume(t) ==
    /\ IsHead(t)
    /\ pc[t] = "gate_wait"
    /\ Apply(GateResume(Pop(Conc), t))
    /\ UNCHANGED reset_pc
    /\ UNCHANGED HistVars
    /\ UNCHANGED ConfigVars
    /\ UNCHANGED AuxVars
    /\ UNCHANGED DataVars

\* a task woken on the rate limiter goes on
RunRateResume(t) ==
    /\ IsHead(t)
    /\ pc[t] = "rate_wait"
    /\ Apply(RateResume(Pop(Conc), t))
    /\ UNCHANGED reset_pc
    /\ UNCHANGED HistVars
    /\ UNCHANGED ConfigVars
    /\ UNCHANGED AuxVars
    /\ UNCHANGED DataVars

\* the transport has an answer for the request of t
HttpDone(t) ==
    /\ pc[t] = "http"
    /\ pc' = [pc EXCEPT ![t] = "http_done"]
    /\ ready' = Append(ready, t)
    /\ UNCHANGED <<mcr, lock, reset_pc, log, idle_ticks, window_grants>>
    /\ UNCHANGED HistVars
    /\ UNCHANGED ConfigVars
    /\ UNCHANGED AuxVars
    /\ UNCHANGED DataVars


\* get_repositories after the search request: data["items"], then one
\* process_repo task per item, started by gather in list order
RunSearchDone ==
    /\ IsHead(Main)
    /\ pc[Main] = "http_done"
    /\ \E a \in SearchAnswers :
         LET resp == a.resp
             items == a.body
             out == Classify(resp)
             c1 == SafeRequestExit(Pop(Conc), Main, resp)
             s == SearchOutcome(out, items)
             n == Len(s.items)
             c2 == IF s.raised THEN [c1 EXCEPT !.pc[Main] = "failed"]
                   ELSE IF n = 0 THEN [c1 EXCEPT !.pc[Main] = "returned"]
                   ELSE [c1 EXCEPT
                           !.pc = [t \in Tasks |->
                                     IF t = Main THEN "gather"
                                     ELSE IF t <= n THEN "start" ELSE @[t]],
                           !.ready = @ \o [i \in 1..n |-> i]]
         IN  /\ Apply(c2)
             /\ exc' = IF s.raised THEN out ELSE exc
             /\ repos_data' = s.items
    /\ UNCHANGED <<reset_pc, commits, results, ret>>
    /\ UNCHANGED HistVars
    /\ UNCHANGED ConfigVars
    /\ UNCHANGED AuxVars

\* process_repo after the commits request: the failure is downgraded, the
\* authors are counted, the Repository is the result of the task; gather
\* wakes Main when the last task is done (or when a task has raised)
RunCommitsDone(t) ==
    /\ t /= Main
    /\ IsHead(t)
    /\ pc[t] = "http_done"
    /\ \E a \in CommitsAnswers(t) :
         LET resp == a.resp
             payload == a.body
             out == Classify(resp)
             c1 == SafeRequestExit(Pop(Conc), t, resp)
             o == CommitsOrEmpty(out, payload)
             c2 == IF out.ok THEN c1 ELSE Logged(c1, t, "warning")
             last == GatherComplete(pc, Len(repos_data), t)
             repo == MakeRepository(repos_data[t], Position(t - 1), Aggregate(o.commits))
         IN  IF o.raised
             THEN /\ Apply([c1 EXCEPT !.pc[t] = "raised",
                                      !.ready = IF exc = NoExc THEN Append(@, Main) ELSE @])
                  /\ exc' = IF exc = NoExc THEN out ELSE exc
                  /\ UNCHANGED <<commits, results, out_of_order>>
             ELSE /\ Apply([c2 EXCEPT !.pc[t] = "done",
                                      !.ready = IF last THEN Append(@, Main) ELSE @])
                  /\ commits' = [commits EXCEPT ![t] = o.commits]
                  /\ results' = GatherSlot(results, t - 1, repo)
                  /\ exc' = exc
                  /\ out_of_order' = (out_of_order \/ \E u \in 1..(t - 1) : pc[u] /= "done")
    /\ UNCHANGED <<reset_pc, ticked, repos_data, ret>>
    /\ UNCHANGED ConfigVars
    /\ UNCHANGED AuxVars

\* results = await asyncio.gather(*tasks); return results
RunGatherDone ==
    /\ IsHead(Main)
    /\ pc[Main] = "gather"
    /\ ready' = Tail(ready)
    /\ IF exc = NoExc
       THEN /\ pc' = [pc EXCEPT ![Main] = "returned"]
            /\ ret' = GatherResults(results, Len(repos_data))
       ELSE /\ pc' = [pc EXCEPT ![Main] = "failed"]
            /\ ret' = ret
    /\ UNCHANGED <<mcr, lock, reset_pc, log, idle_ticks, window_grants>>
    /\ UNCHANGED HistVars
    /\ UNCHANGED <<repos_data, commits, results, exc>>
    /\ UNCHANGED ConfigVars
    /\ UNCHANGED AuxVars

Next ==
    \/ RunResetStart
    \/ TimerFire
    \/ RunResetTick
    \/ \E t \in Tasks : RunSafeRequest(t)
    \/ \E t \in Tasks : RunGateResume(t)
    \/ \E t \in Tasks : RunRateResume(t)
    \/ \E t \in Tasks : HttpDone(t)
    \/ RunSearchDone
    \/ \E t \in Tasks : RunCommitsDone(t)
    \/ RunGatherDone

Spec == Init /\ [][Next]_vars

\* what the event loop does by itself: it runs the task at the head of the
\* ready queue and fires the timer of sleep(1)
LoopSteps ==
    \/ RunResetStart
    \/ TimerFire
    \/ RunResetTick
    \/ \E t \in Tasks : RunSafeRequest(t)
    \/ \E t \in Tasks : RunGateResume(t)
    \/ \E t \in Tasks : RunRateResume(t)
    \/ RunSearchDone
    \/ \E t \in Tasks : RunCommitsDone(t)
    \/ RunGatherDone

\* the event loop keeps going, and every request gets its answer
Fairness == WF_vars(LoopSteps) /\ \A t \in Tasks : WF_vars(HttpDone(t))

\* One call of get_repositories against an upstream that answers each
\* request in one of two ways, a success or a failure: the steps of a task
\* depend on the answer through nothing else.
InitTerm ==
    /\ M \in 1..MaxM
    /\ R \in 1..MaxR
    /\ limit \in 1..MaxLimit
    /\ mcr = Semaphore(M)
    /\ lock = NewLock(R)
    /\ running = TRUE
    /\ reset_pc = "created"
    /\ ready = <<Main, ResetTask>>
    /\ pc = [t \in Tasks |-> IF t = Main THEN "start" ELSE "none"]
    /\ log = [t \in Tasks |-> <<>>]
    /\ repos_data = <<>>
    /\ commits = [t \in 1..MaxLimit |-> <<>>]
    /\ results = [t \in 1..MaxLimit |-> NoRepo]
    /\ ret = <<>>
    /\ exc = NoExc
    /\ ticked = FALSE
    /\ idle_ticks = 0
    /\ window_grants = 0
    /\ out_of_order = FALSE
    /\ scenario = "two_way"
    /\ PureIdle
    /\ CloseIdle

FairSpecTerm == InitTerm /\ [][Next]_vars /\ Fairness

TypeOK ==
    /\ M \in 1..MaxM /\ R \in 1..MaxR /\ limit \in 1..MaxLimit
    /\ mcr.value \in Nat /\ lock.value \in Nat
    /\ pc \in [Tasks -> {"none", "start", "gate_wait", "rate_wait", "http",
                         "http_done", "done", "raised", "gather", "returned", "failed"}]
    /\ Len(repos_data) <= limit


\* ---- properties
CoreEvents == {"gate", "permit", "send", "release"}
ErrorMessages == {"GitHub server error", "Forbidden/Ratelimit", "Client error",
                  "Network error", "unexpected error"}
Events(t) == SelectSeq(log[t], LAMBDA e : e \in CoreEvents)
Has(t, e) == \E i \in 1..Len(log[t]) : log[t][i] = e
RequestFailed(t) == \E i \in 1..Len(log[t]) : log[t][i] \in ErrorMessages
IsPrefix(p, q) == Len(p) <= Len(q) /\ \A i \in 1..Len(p) : p[i] = q[i]
RepoTasks == 1..MaxLimit

\* tasks inside the "async with self._mcr" block of _safe_request
GateHolders == {t \in Tasks : pc[t] \in {"rate_wait", "http", "http_done"}}
WokenOn(s) == {i \in 1..Len(s.waiters) : s.waiters[i].done}

\* C1: at most M tasks are inside the async-with block of the gate at any
\* time, whatever the number of process_repo tasks.
C1_GateBound == Cardinality(GateHolders) \in 0..M
C1_Witness ==
    /\ Len(repos_data) > M
    /\ Cardinality(GateHolders) = M
    /\ \E t \in RepoTasks : IsParked(mcr, t)

\* C2: every completed acquire() has taken one permit out of the R of the
\* current window (available + handed to woken waiters + completed = R), so
\* at most R acquire() calls complete between two refill ticks.
C2_RateWindow ==
    /\ window_grants <= R
    /\ lock.value + Cardinality(WokenOn(lock)) + window_grants = R
C2_Witness ==
    /\ ticked
    /\ window_grants = R
    /\ \E t \in RepoTasks : IsParked(lock, t)

\* C3: the available-permit count stays within 0..R, also after refill ticks
\* with no acquire() in between.
C3_PermitRange == lock.value \in 0..R
C3_Witness == idle_ticks >= 2 /\ lock.value = R

\* C4: before the first refill tick no acquire() waits unless R have already
\* completed, and no more than R complete.
C4_FirstWindow ==
    ~ticked => /\ window_grants <= R
               /\ (lock.waiters /= <<>> => window_grants = R /\ lock.value = 0)
C4_Witness ==
    /\ ~ticked
    /\ window_grants = R
    /\ \E t \in RepoTasks : IsParked(lock, t)

\* C5: a request is sent only after its task has taken a gate slot and then,
\* still holding it, a rate permit: the events of a task are always a prefix
\* of gate, permit, send, release.
C5_GateThenPermit ==
    \A t \in Tasks :
        /\ IsPrefix(Events(t), <<"gate", "permit", "send", "release">>)
        /\ (pc[t] \in {"http", "http_done"} => Events(t) = <<"gate", "permit", "send">>)
C5_Witness ==
    /\ Events(Main) = <<"gate", "permit", "send", "release">>
    /\ \E t \in RepoTasks : pc[t] = "http" /\ Events(t) = <<"gate", "permit", "send">>

\* C6: every gate acquire is matched by exactly one release on every exit
\* path of _safe_request, so the gate is free again when get_repositories
\* is over and its tasks have finished.
C6_GateReleased ==
    /\ \A t \in Tasks :
          pc[t] \in {"done", "raised", "gather", "returned", "failed"}
             => Events(t) = <<"gate", "permit", "send", "release">>
    /\ mcr.value + Cardinality(WokenOn(mcr))
          + Cardinality({t \in Tasks : Has(t, "gate") /\ ~Has(t, "release")}) = M
    /\ (pc[Main] \in {"returned", "failed"}
          /\ \A t \in RepoTasks : pc[t] \in {"none", "done", "raised"})
         => mcr = Semaphore(M)
C6_Witness ==
    /\ pc[Main] = "returned"
    /\ mcr = Semaphore(M)
    /\ \E t, u \in RepoTasks :
          /\ pc[t] = "done" /\ RequestFailed(t)
          /\ pc[u] = "done" /\ ~RequestFailed(u)

\* C7: when the search request has succeeded get_repositories never fails;
\* a repository whose commits request failed is returned with no authors,
\* the others with the counts of the commits they received.
C7_CommitFailureDowngraded ==
    /\ \A t \in RepoTasks : pc[t] /= "raised"
    /\ (pc[Main] \in {"returned", "failed"} /\ ~RequestFailed(Main))
         => /\ pc[Main] = "returned"
            /\ Len(ret) = Len(repos_data)
            /\ \A i \in 1..Len(repos_data) :
                  /\ ret[i].name = repos_data[i].name
                  /\ RequestFailed(i) => ret[i].authors_commits_num_today = <<>>
                  /\ ~RequestFailed(i) =>
                        ret[i].authors_commits_num_today = Aggregate(commits[i])
C7_Witness ==
    /\ pc[Main] = "returned"
    /\ \E i, j \in 1..Len(ret) :
          /\ RequestFailed(i) /\ ret[i].authors_commits_num_today = <<>>
          /\ ~RequestFailed(j) /\ ret[j].authors_commits_num_today /= <<>>

\* C8: a failed search request makes get_repositories fail with that
\* error; nothing is returned and no process_repo task exists.
C8_SearchFailureFatal ==
    RequestFailed(Main)
       => /\ pc[Main] = "failed"
          /\ ~exc.ok
          /\ exc.msg = log[Main][4]
          /\ ret = <<>>
          /\ repos_data = <<>>
          /\ \A t \in RepoTasks : pc[t] = "none" /\ log[t] = <<>>
C8_Witness ==
    /\ pc[Main] = "failed"
    /\ exc.msg = "Forbidden/Ratelimit"
    /\ exc.status = 403

\* C9: the i-th returned Repository is the one built from the i-th item of
\* the search response, in whatever order the tasks have finished.
C9_RankOrder ==
    /\ \A i \in RepoTasks :
          results[i] /= NoRepo => i <= Len(repos_data) /\ results[i].name = repos_data[i].name
    /\ pc[Main] = "returned" =>
          /\ Len(ret) = Len(repos_data)
          /\ \A i \in 1..Len(ret) :
                /\ ret[i].name = repos_data[i].name
                /\ ret[i].owner = repos_data[i].owner
                /\ ret[i].stars = repos_data[i].stargazers_count
                /\ ret[i].authors_commits_num_today = Aggregate(commits[i])
C9_Witness ==
    /\ pc[Main] = "returned"
    /\ out_of_order
    /\ Len(ret) >= 2

\* C10: get_repositories returns as many records as the search response
\* has items, at most limit, and the record at index i (from 1) has
\* position i.
C10_Positions ==
    pc[Main] = "returned" =>
        /\ Len(ret) <= limit
        /\ Len(ret) = Len(repos_data)
        /\ \A i \in 1..Len(ret) : ret[i].position = i
C10_Witness ==
    /\ pc[Main] = "returned"
    /\ limit >= 2
    /\ Len(ret) = limit


\* C11: when get_repositories has returned, every process_repo task it made
\* has finished with a Repository (built from its commits or downgraded to
\* no authors) and none is left on the gate, on the rate limiter or ready.
C11_JoinsAllTasks ==
    pc[Main] = "returned" =>
        /\ \A i \in 1..Len(repos_data) :
              pc[i] = "done" /\ results[i] /= NoRepo /\ ret[i] = results[i]
        /\ \A t \in RepoTasks : pc[t] \in {"none", "done"}
        /\ mcr.waiters = <<>> /\ lock.waiters = <<>>
        /\ \A i \in 1..Len(ready) : ready[i] \notin RepoTasks
C11_Witness ==
    /\ pc[Main] = "returned"
    /\ Len(ret) >= 2
    /\ \E t, u \in 1..Len(ret) :
          /\ Has(t, "warning") /\ ret[t].authors_commits_num_today = <<>>
          /\ ~Has(u, "warning") /\ pc[u] = "done"


\* ---------------------------------------------------------------------------
\* The aggregation loop of process_repo and the classification of
\* _safe_request applied on their own, on inputs richer than the requests of
\* Spec carry.

AggLogins == {"a", "b"}
AggCommits == {[author |-> None, login |-> None]} \cup
              [author : {"obj"}, login : AggLogins \cup {None}]
AggInputs == SeqsUpTo(AggCommits, MaxAggLen)

StatusCodes == 100..599
Texts == {"", "API rate limit exceeded"}
Causes == {"ClientConnectorError", "ServerDisconnectedError"}
ClsInputs == [kind : {"status"}, status : StatusCodes, body : Texts] \cup
             [kind : {"ClientError"}, status : {0}, body : Causes] \cup
             [kind : {"Exception"}, status : {0}, body : {"ValueError"}]

\* no scrapper is at work while a function is applied on its own
ScrapperIdle ==
    /\ M = 1 /\ R = 1 /\ limit = 1
    /\ mcr = Semaphore(M)
    /\ lock = NewLock(R)
    /\ running = FALSE
    /\ reset_pc = "none"
    /\ ready = <<>>
    /\ pc = [t \in Tasks |-> "none"]
    /\ log = [t \in Tasks |-> <<>>]
    /\ repos_data = <<>>
    /\ commits = [t \in 1..MaxLimit |-> <<>>]
    /\ results = [t \in 1..MaxLimit |-> NoRepo]
    /\ ret = <<>>
    /\ exc = NoExc
    /\ ticked = FALSE
    /\ idle_ticks = 0
    /\ window_grants = 0
    /\ out_of_order = FALSE
    /\ scenario = "any"
ScrapperVars == <<M, R, limit, mcr, lock, running, reset_pc, ready, pc, log,
                  repos_data, commits, results, ret, exc, ticked, idle_ticks,
                  window_grants, out_of_order, scenario>>

InitPure ==
    /\ ScrapperIdle
    /\ CloseIdle
    /\ agg_authors = <<>>
    /\ cls_out = NoOutcome
    /\ \/ fn_pc = "aggregate" /\ agg_commits \in AggInputs /\ cls_resp = NoResp
       \/ fn_pc = "classify" /\ agg_commits = <<>> /\ cls_resp \in ClsInputs

\* authors = {}; for commit in commits: ...
RunAggregate ==
    /\ fn_pc = "aggregate"
    /\ agg_authors' = Aggregate(agg_commits)
    /\ fn_pc' = "aggregated"
    /\ UNCHANGED <<agg_commits, cls_resp, cls_out>>
    /\ UNCHANGED <<ScrapperVars, CloseVars>>

\* the body of "async with self._session.request(...) as resp" and the
\* except clauses around it
RunClassify ==
    /\ fn_pc = "classify"
    /\ cls_out' = [out |-> Classify(cls_resp), message |-> ErrorMessage(cls_resp)]
    /\ fn_pc' = "classified"
    /\ UNCHANGED <<agg_commits, agg_authors, cls_resp>>
    /\ UNCHANGED <<ScrapperVars, CloseVars>>

NextPure == RunAggregate \/ RunClassify
SpecPure == InitPure /\ [][NextPure]_vars

RECURSIVE TotalCommits(_)
TotalCommits(authors) ==
    IF authors = <<>> THEN 0
    ELSE Head(authors).commits_num + TotalCommits(Tail(authors))
RECURSIVE CountOf(_, _)
CountOf(authors, name) ==
    IF authors = <<>> THEN 0
    ELSE (IF Head(authors).author = name THEN Head(authors).commits_num ELSE 0)
         + CountOf(Tail(authors), name)
NumCommits(cs, author, login) ==
    Cardinality({k \in 1..Len(cs) : cs[k].author = author /\ cs[k].login = login})
NullAuthor(cs) == NumCommits(cs, None, None)
NoLogin(cs) == NumCommits(cs, "obj", None)

NameAt(cs, k) == IF cs[k].login = None THEN "unknown" ELSE cs[k].login
Occurrences(cs, name) == {k \in 1..Len(cs) : cs[k].author /= None /\ NameAt(cs, k) = name}
FirstOccurrence(cs, name) ==
    CHOOSE k \in Occurrences(cs, name) : \A j \in Occurrences(cs, name) : k <= j

\* C13: the authors of a Repository hold at most one entry per author, every
\* entry counts at least one commit, and the entries are in the order in
\* which their authors first occur in the commit list.
C13_AuthorsDistinctOrdered ==
    fn_pc = "aggregated" =>
        /\ \A i, j \in 1..Len(agg_authors) :
              agg_authors[i].author = agg_authors[j].author => i = j
        /\ \A i \in 1..Len(agg_authors) :
              /\ agg_authors[i].commits_num >= 1
              /\ Occurrences(agg_commits, agg_authors[i].author) /= {}
        /\ \A i, j \in 1..Len(agg_authors) :
              i < j => FirstOccurrence(agg_commits, agg_authors[i].author)
                         < FirstOccurrence(agg_commits, agg_authors[j].author)
C13_Witness ==
    /\ fn_pc = "aggregated"
    /\ Len(agg_authors) = 3
    /\ agg_authors[1].commits_num < agg_authors[3].commits_num
    /\ agg_authors[2].author = "unknown"
    /\ agg_authors[3].author = "a"

\* C14: the outcome of a request is of exactly one kind: a status of 500 or
\* more is a server error carrying the status, 403 is the forbidden or rate
\* limited error and no client error, another status from 400 to 499 is a
\* client error carrying the status and the text of the response, a failure
\* of the transport is a network error raised from its cause, and any other
\* status is a success.
C14_OutcomeKinds ==
    fn_pc = "classified" =>
        LET r == cls_resp
            o == cls_out.out
            m == cls_out.message
        IN  /\ (r.kind = "status" /\ r.status >= 500) =>
                 ~o.ok /\ o.msg = "GitHub server error" /\ m.prefix = o.msg
                       /\ m.status = r.status
            /\ (r.kind = "status" /\ r.status = 403) =>
                 ~o.ok /\ o.msg = "Forbidden/Ratelimit" /\ m.prefix = o.msg
                       /\ m.text = r.body
            /\ (r.kind = "status" /\ r.status \in 400..499 /\ r.status /= 403) =>
                 ~o.ok /\ o.msg = "Client error" /\ m.prefix = o.msg
                       /\ m.status = r.status /\ m.text = r.body
            /\ r.kind = "ClientError" =>
                 ~o.ok /\ o.msg = "Network error" /\ m.prefix = o.msg
                       /\ m.cause = r.body
            /\ (r.kind = "status" /\ r.status < 400) => o = NoExc /\ m = None
            /\ ~o.ok => o.type \in {"RuntimeError", "Exception"}
C14_Witness ==
    /\ fn_pc = "classified"
    /\ cls_resp.kind = "status" /\ cls_resp.status = 403
    /\ cls_resp.body = "API rate limit exceeded"
    /\ cls_out.out.msg = "Forbidden/Ratelimit"
    /\ cls_out.message.text = "API rate limit exceeded"


Count(t, e) == Len(SelectSeq(log[t], LAMBDA x : x = e))

\* C15: no request is repeated: a task never sends more than one request and
\* never takes more than one permit; when get_repositories has returned,
\* Main and each of the K repository tasks have sent exactly one request on
\* exactly one permit, whether it failed or not (1 + K in all); when the
\* search has failed, the search request is the only one sent.
C15_NoRetry ==
    /\ \A t \in Tasks : Count(t, "send") <= 1 /\ Count(t, "permit") <= 1
    /\ pc[Main] = "returned" =>
          \A t \in Tasks :
             /\ Count(t, "send") = (IF t = Main \/ t <= Len(repos_data) THEN 1 ELSE 0)
             /\ Count(t, "permit") = Count(t, "send")
    /\ pc[Main] = "failed" =>
          /\ Count(Main, "send") = 1 /\ Count(Main, "permit") = 1
          /\ \A t \in RepoTasks : Count(t, "send") = 0 /\ Count(t, "permit") = 0
C15_Witness ==
    /\ pc[Main] = "returned"
    /\ Len(repos_data) = 2
    /\ \A t \in 0..2 : Count(t, "send") = 1
    /\ \A t \in 1..2 : RequestFailed(t)


\* ---------------------------------------------------------------------------
\* GithubReposScrapper.close(): only the HTTP session is closed; the
\* RateLimiter made by the constructor is left as it is.
ScrapperClose ==
    /\ pc[Main] \in {"returned", "failed"}
    /\ ~session_closed
    /\ session_closed' = TRUE
    /\ UNCHANGED <<scenario, PureVars, closes, close_exc>>
    /\ UNCHANGED <<mcr, lock, reset_pc, ready, pc, log, idle_ticks, window_grants>>
    /\ UNCHANGED HistVars
    /\ UNCHANGED ConfigVars
    /\ UNCHANGED DataVars

NextClose == Next \/ ScrapperClose
SpecClose == Init /\ [][NextClose]_vars

\* C17: once GithubReposScrapper.close() (or __aexit__) has returned, the
\* refill task of its RateLimiter is no longer running and ticks no more.
C17_CloseStopsRefill ==
    session_closed => ~running /\ reset_pc \in {"cancelled", "finished"}

\* ---------------------------------------------------------------------------
\* The RateLimiter on its own: Main owns it and calls close(), each other
\* task calls acquire() once, at any time.

InitRL ==
    /\ M = 1
    /\ R \in 1..MaxR
    /\ limit = MaxLimit
    /\ mcr = Semaphore(M)
    /\ lock = NewLock(R)
    /\ running = TRUE
    /\ reset_pc = "created"
    /\ ready = <<ResetTask>>
    /\ pc = [t \in Tasks |-> IF t = Main THEN "idle" ELSE "none"]
    /\ log = [t \in Tasks |-> <<>>]
    /\ repos_data = <<>>
    /\ commits = [t \in 1..MaxLimit |-> <<>>]
    /\ results = [t \in 1..MaxLimit |-> NoRepo]
    /\ ret = <<>>
    /\ exc = NoExc
    /\ ticked = FALSE
    /\ idle_ticks = 0
    /\ window_grants = 0
    /\ out_of_order = FALSE
    /\ scenario = "any"
    /\ PureIdle
    /\ CloseIdle

\* a caller of acquire() is started
CallAcquire(t) ==
    /\ t /= Main
    /\ pc[t] = "none"
    /\ pc' = [pc EXCEPT ![t] = "call_acquire"]
    /\ ready' = Append(ready, t)
    /\ UNCHANGED <<mcr, lock, reset_pc, log, idle_ticks, window_grants>>
    /\ UNCHANGED HistVars
    /\ UNCHANGED ConfigVars
    /\ UNCHANGED AuxVars
    /\ UNCHANGED DataVars

\* await self._lock.acquire() up to its suspension, or to its return
LimiterAcquire(c, t) ==
    LET a == Acquire(c.lock, t)
        c1 == [c EXCEPT !.lock = a.sem]
    IN  IF a.parked THEN [c1 EXCEPT !.pc[t] = "rate_wait"]
        ELSE [Granted(c1, t) EXCEPT !.pc[t] = "acquired"]

LimiterResume(c, t) ==
    LET a == AcquireResume(c.lock, t)
        c1 == [c EXCEPT !.lock = a.sem, !.ready = @ \o a.woken]
    IN  [Granted(c1, t) EXCEPT !.pc[t] = "acquired"]

RunAcquire(t) ==
    /\ IsHead(t)
    /\ pc[t] = "call_acquire"
    /\ Apply(LimiterAcquire(Pop(Conc), t))
    /\ UNCHANGED reset_pc
    /\ UNCHANGED HistVars
    /\ UNCHANGED ConfigVars
    /\ UNCHANGED AuxVars
    /\ UNCHANGED DataVars

RunAcquireResume(t) ==
    /\ t /= Main
    /\ IsHead(t)
    /\ pc[t] = "rate_wait"
    /\ Apply(LimiterResume(Pop(Conc), t))
    /\ UNCHANGED reset_pc
    /\ UNCHANGED HistVars
    /\ UNCHANGED ConfigVars
    /\ UNCHANGED AuxVars
    /\ UNCHANGED DataVars

\* the owner is about to call close()
CallClose ==
    /\ pc[Main] = "idle"
    /\ closes < MaxCloses
    /\ pc' = [pc EXCEPT ![Main] = "call_close"]
    /\ ready' = Append(ready, Main)
    /\ UNCHANGED <<mcr, lock, reset_pc, log, idle_ticks, window_grants>>
    /\ UNCHANGED HistVars
    /\ UNCHANGED ConfigVars
    /\ UNCHANGED AuxVars
    /\ UNCHANGED DataVars

\* "await self._reset_task" on a task that is done: a cancelled task raises
\* CancelledError in the awaiter, a task that has returned gives its result
AwaitResetTask(state) == IF state = "cancelled" THEN "CancelledError" ELSE None

\* try: await self._reset_task / except asyncio.CancelledError: pass
CloseOutcomeUncaught(raised) == raised
CloseOutcome(raised) == IF raised = "CancelledError" THEN None ELSE raised

\* self._reset_task.cancel(): nothing on a task that is done; a sleeping
\* task has its sleep cancelled and is scheduled; a task that is already
\* scheduled gets the CancelledError at its next step instead of going on
CancelResetTask(state) ==
    IF state \in {"cancelled", "finished"} THEN state ELSE "cancelling"

\* close() from its first line to "await self._reset_task"
RunClose ==
    /\ IsHead(Main)
    /\ pc[Main] = "call_close"
    /\ running' = FALSE
    /\ reset_pc' = CancelResetTask(reset_pc)
    /\ IF reset_pc \in {"cancelled", "finished"}
       THEN /\ close_exc' = CloseOutcome(AwaitResetTask(reset_pc))
            /\ closes' = closes + 1
            /\ pc' = [pc EXCEPT ![Main] = "idle"]
            /\ ready' = Tail(ready)
       ELSE /\ UNCHANGED <<close_exc, closes>>
            /\ pc' = [pc EXCEPT ![Main] = "close_wait"]
            /\ ready' = IF reset_pc = "sleeping" THEN Append(Tail(ready), ResetTask)
                        ELSE Tail(ready)
    /\ UNCHANGED <<M, R, limit, mcr, lock, log, idle_ticks, window_grants>>
    /\ UNCHANGED <<scenario, PureVars, session_closed>>
    /\ UNCHANGED HistVars
    /\ UNCHANGED DataVars

\* the refill task takes the CancelledError: "except Exception" does not
\* catch it, the task ends cancelled and its awaiter is scheduled
RunResetRefillsOnCancel ==
    /\ IsHead(ResetTask)
    /\ reset_pc = "cancelling"
    /\ reset_pc' = "cancelled"
    /\ LET r == ReleaseN(lock, ToRelease(R, lock.value))
       IN  /\ lock' = r.sem
           /\ ready' = (IF pc[Main] = "close_wait" THEN Append(Tail(ready), Main)
                        ELSE Tail(ready)) \o r.woken
    /\ UNCHANGED <<mcr, pc, log, idle_ticks, window_grants>>
    /\ UNCHANGED HistVars
    /\ UNCHANGED ConfigVars
    /\ UNCHANGED AuxVars
    /\ UNCHANGED DataVars
RunResetCancelled ==
    /\ IsHead(ResetTask)
    /\ reset_pc = "cancelling"
    /\ reset_pc' = "cancelled"
    /\ ready' = IF pc[Main] = "close_wait" THEN Append(Tail(ready), Main) ELSE Tail(ready)
    /\ UNCHANGED <<mcr, lock, pc, log, idle_ticks, window_grants>>
    /\ UNCHANGED HistVars
    /\ UNCHANGED ConfigVars
    /\ UNCHANGED AuxVars
    /\ UNCHANGED DataVars

\* close() after "await self._reset_task"
RunCloseDone ==
    /\ IsHead(Main)
    /\ pc[Main] = "close_wait"
    /\ close_exc' = CloseOutcome(AwaitResetTask(reset_pc))
    /\ closes' = closes + 1
    /\ pc' = [pc EXCEPT ![Main] = "idle"]
    /\ ready' = Tail(ready)
    /\ UNCHANGED <<mcr, lock, reset_pc, log, idle_ticks, window_grants>>
    /\ UNCHANGED <<scenario, PureVars, session_closed>>
    /\ UNCHANGED HistVars
    /\ UNCHANGED ConfigVars
    /\ UNCHANGED DataVars

\* what the event loop does by itself: it runs the tasks that are ready and
\* fires the timer
LoopRL ==
    \/ RunResetStart
    \/ TimerFire
    \/ RunResetTick
    \/ \E t \in Tasks : RunAcquire(t)
    \/ \E t \in Tasks : RunAcquireResume(t)
    \/ RunClose
    \/ RunResetCancelled
    \/ RunCloseDone

NextRL ==
    \/ LoopRL
    \/ \E t \in Tasks : CallAcquire(t)
    \/ CallClose

SpecRL == InitRL /\ [][NextRL]_vars
FairSpecRL == SpecRL /\ WF_vars(LoopRL)

\* C16: a task that is parked in acquire() when the limiter is closed is not
\* left there forever: it gets its permit or is released with a failure.
C16_NoCallerStranded ==
    \A t \in RepoTasks :
        (~running /\ pc[t] = "rate_wait") ~> (pc[t] \in {"acquired", "cancelled"})

\* C18: close() on a limiter that is closed already, or whose loop has not
\* ticked yet, raises nothing and changes nothing: after any number of
\* calls the limiter is not running, its refill task is cancelled, and a
\* call after the first leaves the permits, the flag and the task as they are.
C18_CloseIdempotent ==
    /\ [](closes >= 1 => ~running /\ reset_pc = "cancelled" /\ close_exc = None)
    /\ [][(closes >= 1 /\ closes' = closes + 1) =>
             /\ lock' = lock
             /\ running' = running
             /\ reset_pc' = reset_pc
             /\ close_exc' = None]_vars
C18_Witness ==
    /\ closes = 2
    /\ ~ticked
    /\ close_exc = None
    /\ reset_pc = "cancelled"
    /\ \E t \in RepoTasks : pc[t] = "acquired"


\* the list that the upstream data alone determines: one record per item of
\* the search response, in its order, with the counts of the commits the
\* task of the item ended up with
Expected(items, cs) ==
    [i \in 1..Len(items) |->
        [name |-> items[i].name,
         owner |-> items[i].owner,
         position |-> i,
         stars |-> items[i].stargazers_count,
         watchers |-> items[i].watchers_count,
         forks |-> items[i].forks_count,
         language |-> IF items[i].language = None THEN "unknown" ELSE items[i].language,
         authors_commits_num_today |-> Aggregate(cs[i])]]

\* C19: the list get_repositories returns is a function of the search
\* response and of the commit outcome of each repository only: whatever the
\* interleaving of the tasks and the state of the rate limiter, the same
\* upstream data give the same list.
C19_Deterministic ==
    pc[Main] = "returned" => ret = Expected(repos_data, commits)
C19_Witness ==
    /\ pc[Main] = "returned"
    /\ out_of_order
    /\ ticked
    /\ Len(ret) = 2
    /\ ret[1].authors_commits_num_today /= <<>>
    /\ RequestFailed(2)

\* ---------------------------------------------------------------------------
\* One call get_repositories(2) against the scripted upstream.
InitE2E ==
    /\ M \in 1..MaxM
    /\ R \in 1..MaxR
    /\ limit = 2
    /\ mcr = Semaphore(M)
    /\ lock = NewLock(R)
    /\ running = TRUE
    /\ reset_pc = "created"
    /\ ready = <<Main, ResetTask>>
    /\ pc = [t \in Tasks |-> IF t = Main THEN "start" ELSE "none"]
    /\ log = [t \in Tasks |-> <<>>]
    /\ repos_data = <<>>
    /\ commits = [t \in 1..MaxLimit |-> <<>>]
    /\ results = [t \in 1..MaxLimit |-> NoRepo]
    /\ ret = <<>>
    /\ exc = NoExc
    /\ ticked = FALSE
    /\ idle_ticks = 0
    /\ window_grants = 0
    /\ out_of_order = FALSE
    /\ scenario = "e2e"
    /\ PureIdle
    /\ CloseIdle

SpecE2E == InitE2E /\ [][Next]_vars

\* C20: with limit 2, the items X/o1 and Y/o2, three commits by alice for X
\* and a 403 for the commits of Y, get_repositories does not fail and what
\* it returns is X at position 1 with alice: 3 and Y at position 2 with no
\* authors.
C20_EndToEnd ==
    /\ pc[Main] /= "failed" /\ exc = NoExc
    /\ pc[Main] = "returned" =>
          ret = <<[name |-> "X", owner |-> "o1", position |-> 1, stars |-> 100,
                   watchers |-> 100, forks |-> 10, language |-> "Python",
                   authors_commits_num_today |->
                       <<[author |-> "alice", commits_num |-> 3]>>],
                  [name |-> "Y", owner |-> "o2", position |-> 2, stars |-> 50,
                   watchers |-> 50, forks |-> 5, language |-> "unknown",
                   authors_commits_num_today |-> <<>>]>>
C20_Witness ==
    /\ pc[Main] = "returned"
    /\ Len(ret) = 2
    /\ Has(2, "Forbidden/Ratelimit") /\ Has(2, "warning")
    /\ ~RequestFailed(1)
    /\ ret[1].authors_commits_num_today = <<[author |-> "alice", commits_num |-> 3]>>


\* a step of the refill task that is a tick
IsTick == reset_pc = "timer_done" /\ reset_pc' \in {"sleeping", "finished"}
Pending(s) == {i \in 1..Len(s.waiters) : ~s.waiters[i].done}

\* C21: a refill tick releases exactly deficit = R - available permits when
\* the deficit is positive: each goes to the first waiter still parked, or
\* to the count when none is, so that the count and the permits handed to
\* the waiters it woke make R; with no deficit the tick leaves the
\* semaphore as it is.
C21_RefillDeficit ==
    [][IsTick =>
         LET deficit == R - lock.value
             handed == Cardinality(WokenOn(lock')) - Cardinality(WokenOn(lock))
         IN  IF deficit > 0
             THEN /\ lock'.value + handed = lock.value + deficit
                  /\ lock'.value + Cardinality(WokenOn(lock')) = R
                  /\ handed = Min(deficit, Cardinality(Pending(lock)))
             ELSE lock' = lock]_vars
C21_Witness ==
    /\ ticked
    /\ reset_pc = "sleeping"
    /\ window_grants = 0
    /\ WokenOn(lock) /= {}
    /\ lock.value + Cardinality(WokenOn(lock)) = R


\* C22: a RateLimiter starts running with all R permits available and no
\* waiter; the available count grows only by a refill tick taken while the
\* limiter is running; once close() has returned the limiter is not
\* running, its refill task has ended, and the count never grows again.
C22_Lifecycle ==
    /\ (running = TRUE /\ lock = Semaphore(R) /\ reset_pc = "created")
    /\ [](closes >= 1 => ~running /\ reset_pc \in {"cancelled", "finished"})
    /\ [][lock'.value > lock.value => running /\ IsTick]_vars
    /\ [][closes >= 1 => lock'.value <= lock.value /\ ticked' = ticked]_vars
C22_Witness ==
    /\ closes >= 1
    /\ pc[Main] = "idle"
    /\ ticked
    /\ lock.value < R
    /\ \A t \in RepoTasks : pc[t] = "acquired"


\* C23: while the limiter is running and its loop keeps ticking, no call of
\* acquire() is lost: every caller, parked or about to call, also when the
\* callers are more than R, ends up with a permit (unless the limiter is
\* closed first).
C23_EveryAcquireCompletes ==
    \A t \in RepoTasks :
        (pc[t] \in {"call_acquire", "rate_wait"}) ~> (pc[t] = "acquired" \/ running = FALSE)
C23_Witness ==
    /\ running
    /\ closes = 0
    /\ ticked
    /\ Cardinality({t \in RepoTasks : pc[t] = "acquired"}) > R
    /\ lock.waiters = <<>>


\* ---------------------------------------------------------------------------
\* The scrapper with a refill loop that may fail: an exception raised in
\* the body of the loop, before or after the permits of the tick are
\* released, is logged and raised again by "except Exception", which ends
\* the task; no one awaits the task and it has no done callback.
RunResetFail ==
    /\ IsHead(ResetTask)
    /\ reset_pc = "timer_done"
    /\ reset_pc' = "failed"
    /\ \E refilled \in BOOLEAN :
         LET r == ReleaseN(lock, IF refilled THEN ToRelease(R, lock.value) ELSE 0)
         IN  /\ lock' = r.sem
             /\ ready' = Tail(ready) \o r.woken
    /\ UNCHANGED <<mcr, pc, log, idle_ticks, window_grants>>
    /\ UNCHANGED HistVars
    /\ UNCHANGED ConfigVars
    /\ UNCHANGED AuxVars
    /\ UNCHANGED DataVars

NextFault == Next \/ RunResetFail
SpecFault == Init /\ [][NextFault]_vars
FairSpecFault == SpecFault /\ Fairness

\* C24: when the refill task has failed while tasks are parked in
\* acquire(), the failure reaches a caller: the parked tasks do not stay
\* parked with get_repositories never raising.
C24_RefillFailureSurfaced ==
    (reset_pc = "failed" /\ \E t \in Tasks : IsParked(lock, t))
        ~> (pc[Main] = "failed" \/ \A t \in Tasks : ~IsParked(lock, t))


\* C25: the authors of the Repository of task i are the counts of the
\* commits task i itself ended up with, whatever the other tasks received
\* and whenever they ran, and once built they are not touched by a step of
\* any other task.
C25_TaskIndependence ==
    /\ [](\A i \in RepoTasks :
            results[i] /= NoRepo =>
               LET a == results[i].authors_commits_num_today
               IN  /\ \A name \in Logins \cup {"unknown"} :
                         CountOf(a, name) = Cardinality(Occurrences(commits[i], name))
                   /\ \A k \in 1..Len(a) : a[k].author \in Logins \cup {"unknown"})
    /\ [][\A i \in RepoTasks :
            results[i] /= NoRepo => results'[i] = results[i] /\ commits'[i] = commits[i]]_vars
C25_Witness ==
    /\ pc[Main] = "gather"
    /\ out_of_order
    /\ \A i \in 1..2 : pc[i] = "done"
    /\ results[1].authors_commits_num_today = <<[author |-> "alice", commits_num |-> 1]>>
    /\ results[2].authors_commits_num_today = <<[author |-> "alice", commits_num |-> 1]>>


RateWaiters == {t \in Tasks : pc[t] = "rate_wait"}
InFlight == {t \in Tasks : pc[t] = "http"}

\* C27: a task parked in RateLimiter.acquire() keeps its slot of the gate:
\* the tasks waiting for a permit and the tasks with a request in flight
\* are together at most M, the limiter never has more than M waiters, each
\* of them has entered the gate and not left it, and the slots they hold
\* are missing from the gate.
C27_GateHeldWhileParked ==
    /\ Cardinality(RateWaiters) + Cardinality(InFlight) <= M
    /\ Len(lock.waiters) <= M
    /\ \A i \in 1..Len(lock.waiters) :
          /\ pc[lock.waiters[i].task] = "rate_wait"
          /\ Events(lock.waiters[i].task) = <<"gate">>
    /\ mcr.value + Cardinality(WokenOn(mcr)) <= M - Cardinality(RateWaiters)
C27_Witness ==
    /\ Cardinality(RateWaiters) = M
    /\ \A t \in RateWaiters : IsParked(lock, t)
    /\ \E t \in RepoTasks : pc[t] = "gate_wait" /\ IsParked(mcr, t)
    /\ mcr.value = 0


Finished == pc[Main] \in {"returned", "failed"}
Unfinished == {t \in RepoTasks : pc[t] \notin {"none", "done", "raised"}}
Blocked == {t \in Tasks : IsParked(mcr, t) \/ IsParked(lock, t)}

\* C26 as stated: get_repositories ends, and no state is reached in which
\* every unfinished task is waiting on the gate or for a permit.
C26_NeverAllBlocked ==
    /\ <>Finished
    /\ [](Unfinished /= {} => ~(Unfinished \subseteq Blocked))

\* C26: with M >= 1 and R >= 1, a loop that keeps ticking and requests that
\* all get an answer, get_repositories ends, by return or by exception, for
\* any number of repositories; and there is no deadlock on the way: when
\* every unfinished task is parked on the gate or on the limiter, a task
\* is parked on the limiter with a slot of the gate and the refill loop is
\* alive to give it its permit.
C26_Terminates ==
    /\ <>Finished
    /\ [](~Finished =>
            /\ ENABLED Next
            /\ (Unfinished /= {} /\ Unfinished \subseteq Blocked) =>
                  /\ \E t \in Unfinished : IsParked(lock, t)
                  /\ reset_pc \in {"sleeping", "timer_done"} /\ running)
C26_Witness ==
    /\ pc[Main] = "returned"
    /\ Len(repos_data) > M
    /\ Len(repos_data) > R
    /\ ticked
    /\ \A t \in Tasks : ~IsParked(mcr, t) /\ ~IsParked(lock, t)

====
